---- MODULE Spec2Model ----
(***************************************************************************)
(* Circuit cutting (pennylane/qcut.py): the cut_circuit transform as a     *)
(* state machine over a networkx MultiDiGraph.                             *)
(*                                                                         *)
(* A graph is a record [nodes, edges, fresh]:                              *)
(*   nodes  the nodes in insertion order, each [id, kind, wires]; id is    *)
(*          the identity of the Python object (operators hash by identity) *)
(*   edges  the edges in insertion order, each [u, v, wire, pair]          *)
(*   fresh  the identity the next constructed operator object receives     *)
(***************************************************************************)
EXTENDS Integers, Sequences, FiniteSets, TLC

\* ---------------------------------------------------------------- bounds
MaxOps == 3
NumWires == 2

\* ------------------------------------------------------------ vocabulary
Wires == 0 .. (NumWires - 1)
WireSets == (SUBSET Wires) \ {{}}
NoWire == -1
NoPair == << >>
OpKinds == {"Gate", "WireCut"}
Tapes == UNION {[1 .. n -> [kind : OpKinds, wires : WireSets]] : n \in 0 .. MaxOps}
EmptyGraph == [nodes |-> << >>, edges |-> << >>, fresh |-> 1]
EmptyMap == [w \in {} |-> 0]

\* --------------------------------------------------------------- helpers
Range(s) == {s[k] : k \in DOMAIN s}

SetMin(S) == CHOOSE x \in S : \A y \in S : x <= y

RECURSIVE SortedSeq(_)
SortedSeq(S) == IF S = {} THEN << >> ELSE <<SetMin(S)>> \o SortedSeq(S \ {SetMin(S)})

RECURSIVE Dedup(_)
Dedup(s) ==
    IF s = << >> THEN << >>
    ELSE LET r == Dedup(SubSeq(s, 1, Len(s) - 1))
         IN IF s[Len(s)] \in Range(r) THEN r ELSE Append(r, s[Len(s)])

RECURSIVE SumSeq(_)
SumSeq(s) == IF s = << >> THEN 0 ELSE s[1] + SumSeq(Tail(s))

\* Mutant of Flatten: the fragments' configurations are joined last fragment first.
RECURSIVE FlattenReversed(_)
FlattenReversed(ss) ==
    IF ss = << >> THEN << >> ELSE FlattenReversed(Tail(ss)) \o ss[1]

RECURSIVE Flatten(_)
Flatten(ss) == IF ss = << >> THEN << >> ELSE ss[1] \o Flatten(Tail(ss))

MapPut(f, k, x) == [w \in (DOMAIN f) \cup {k} |-> IF w = k THEN x ELSE f[w]]

\* ------------------------------------------------- networkx MultiDiGraph
NodeIds(graph) == {n.id : n \in Range(graph.nodes)}

NodeOf(graph, id) == CHOOSE n \in Range(graph.nodes) : n.id = id

AddNode(graph, kind, wires) ==
    [nodes |-> Append(graph.nodes, [id |-> graph.fresh, kind |-> kind, wires |-> wires]),
     edges |-> graph.edges,
     fresh |-> graph.fresh + 1]

AddEdge(graph, u, v, wire, pair) ==
    [graph EXCEPT !.edges = Append(@, [u |-> u, v |-> v, wire |-> wire, pair |-> pair])]

\* Mutant of RemoveNode: the node's edges go, the node stays.
RemoveNodeKeepsNode(graph, id) ==
    [graph EXCEPT !.edges = SelectSeq(@, LAMBDA e : e.u # id /\ e.v # id)]

RemoveNode(graph, id) ==
    [graph EXCEPT !.nodes = SelectSeq(@, LAMBDA n : n.id # id),
                  !.edges = SelectSeq(@, LAMBDA e : e.u # id /\ e.v # id)]

Predecessors(graph, id) ==
    LET into == SelectSeq(graph.edges, LAMBDA e : e.v = id)
    IN Dedup([k \in DOMAIN into |-> into[k].u])

Successors(graph, id) ==
    LET out == SelectSeq(graph.edges, LAMBDA e : e.u = id)
    IN Dedup([k \in DOMAIN out |-> out[k].v])

\* ---------------------------------------------------------- tape_to_graph
RECURSIVE WireEdges(_, _, _, _)
WireEdges(graph, id, ws, latest) ==
    IF ws = << >> THEN graph
    ELSE LET w == ws[1]
             g1 == IF w \in DOMAIN latest
                   THEN AddEdge(graph, latest[w], id, w, NoPair)
                   ELSE graph
         IN WireEdges(g1, id, Tail(ws), latest)

RECURSIVE TapeToGraphFrom(_, _, _, _)
TapeToGraphFrom(t, k, graph, latest) ==
    IF k > Len(t) THEN graph
    ELSE LET id == graph.fresh
             g1 == AddNode(graph, t[k].kind, t[k].wires)
             g2 == WireEdges(g1, id, SortedSeq(t[k].wires), latest)
             l2 == [w \in (DOMAIN latest) \cup t[k].wires |->
                        IF w \in t[k].wires THEN id ELSE latest[w]]
         IN TapeToGraphFrom(t, k + 1, g2, l2)

tape_to_graph(t) == TapeToGraphFrom(t, 1, EmptyGraph, EmptyMap)

\* --------------------------------------------------- remove_wire_cut_node
\* The loops thread st = [graph, measure_wires, prepare_wires].
\* Mutant of AddPlaceholders: the two dictionaries receive each other's node.
RECURSIVE AddPlaceholdersSwapped(_, _)
AddPlaceholdersSwapped(st, ws) ==
    IF ws = << >> THEN st
    ELSE LET wire == ws[1]
             meas == st.graph.fresh
             prep == st.graph.fresh + 1
             g1 == AddNode(st.graph, "MeasureNode", {wire})
             g2 == AddNode(g1, "PrepareNode", {wire})
         IN AddPlaceholdersSwapped([graph |-> g2,
                                    measure_wires |-> MapPut(st.measure_wires, wire, prep),
                                    prepare_wires |-> MapPut(st.prepare_wires, wire, meas)],
                                   Tail(ws))

RECURSIVE AddPlaceholders(_, _)
AddPlaceholders(st, ws) ==
    IF ws = << >> THEN st
    ELSE LET wire == ws[1]
             meas == st.graph.fresh
             prep == st.graph.fresh + 1
             g1 == AddNode(st.graph, "MeasureNode", {wire})
             g2 == AddNode(g1, "PrepareNode", {wire})
         IN AddPlaceholders([graph |-> g2,
                             measure_wires |-> MapPut(st.measure_wires, wire, meas),
                             prepare_wires |-> MapPut(st.prepare_wires, wire, prep)],
                            Tail(ws))

RECURSIVE AttachPredecessorWires(_, _, _, _)
AttachPredecessorWires(st, p, ws, nodeWires) ==
    IF ws = << >> THEN st
    ELSE LET wire == ws[1]
             op == st.graph.fresh
             s1 == IF wire \in nodeWires
                   THEN [st EXCEPT
                            !.graph = AddEdge(AddNode(@, "MeasureNode", {wire}),
                                              p, op, NoWire, NoPair),
                            !.measure_wires = MapPut(@, wire, op)]
                   ELSE st
         IN AttachPredecessorWires(s1, p, Tail(ws), nodeWires)

RECURSIVE AttachPredecessors(_, _, _, _)
AttachPredecessors(st, predecessors, wiresOf, nodeWires) ==
    IF predecessors = << >> THEN st
    ELSE LET p == predecessors[1]
         IN AttachPredecessors(
                AttachPredecessorWires(st, p, SortedSeq(wiresOf[p]), nodeWires),
                Tail(predecessors), wiresOf, nodeWires)

\* Mutant of AttachSuccessorWires: the PrepareNode takes the successor's wires.
RECURSIVE AttachSuccessorWiresOnAllWires(_, _, _, _)
AttachSuccessorWiresOnAllWires(st, s, ws, nodeWires) ==
    IF ws = << >> THEN st
    ELSE LET wire == ws[1]
             op == st.graph.fresh
             s1 == IF wire \in nodeWires
                   THEN [st EXCEPT
                            !.graph = AddEdge(AddNode(@, "PrepareNode", Range(ws)),
                                              op, s, NoWire, NoPair),
                            !.prepare_wires = MapPut(@, wire, op)]
                   ELSE st
         IN AttachSuccessorWiresOnAllWires(s1, s, Tail(ws), nodeWires)

RECURSIVE AttachSuccessorWires(_, _, _, _)
AttachSuccessorWires(st, s, ws, nodeWires) ==
    IF ws = << >> THEN st
    ELSE LET wire == ws[1]
             op == st.graph.fresh
             s1 == IF wire \in nodeWires
                   THEN [st EXCEPT
                            !.graph = AddEdge(AddNode(@, "PrepareNode", {wire}),
                                              op, s, NoWire, NoPair),
                            !.prepare_wires = MapPut(@, wire, op)]
                   ELSE st
         IN AttachSuccessorWires(s1, s, Tail(ws), nodeWires)

RECURSIVE AttachSuccessors(_, _, _, _)
AttachSuccessors(st, successors, wiresOf, nodeWires) ==
    IF successors = << >> THEN st
    ELSE LET s == successors[1]
         IN AttachSuccessors(
                AttachSuccessorWires(st, s, SortedSeq(wiresOf[s]), nodeWires),
                Tail(successors), wiresOf, nodeWires)

\* Mutant of AddCutEdges: the loop stops after the first wire.
AddCutEdgesFirstOnly(st, ws) ==
    IF ws = << >> THEN st
    ELSE LET measure == st.measure_wires[ws[1]]
             prepare == st.prepare_wires[ws[1]]
         IN [st EXCEPT !.graph = AddEdge(@, measure, prepare, NoWire, <<measure, prepare>>)]

\* Mutant of AddCutEdges: the pair annotation is written (prepare, measure).
RECURSIVE AddCutEdgesSwappedPair(_, _)
AddCutEdgesSwappedPair(st, ws) ==
    IF ws = << >> THEN st
    ELSE LET measure == st.measure_wires[ws[1]]
             prepare == st.prepare_wires[ws[1]]
         IN AddCutEdgesSwappedPair(
                [st EXCEPT !.graph = AddEdge(@, measure, prepare, NoWire,
                                             <<prepare, measure>>)],
                Tail(ws))

RECURSIVE AddCutEdges(_, _)
AddCutEdges(st, ws) ==
    IF ws = << >> THEN st
    ELSE LET wire == ws[1]
             measure == st.measure_wires[wire]
             prepare == st.prepare_wires[wire]
         IN AddCutEdges([st EXCEPT !.graph = AddEdge(@, measure, prepare, NoWire,
                                                     <<measure, prepare>>)],
                        Tail(ws))

\* The locals of one call, kept with the graph it returns.
remove_wire_cut_node(node, graph) ==
    LET predecessors == Predecessors(graph, node)
        successors == Successors(graph, node)
        nodeWires == NodeOf(graph, node).wires
        wiresOf == [id \in NodeIds(graph) |-> NodeOf(graph, id).wires]
        s0 == [graph |-> RemoveNode(graph, node),
               measure_wires |-> EmptyMap, prepare_wires |-> EmptyMap]
        s1 == AddPlaceholders(s0, SortedSeq(nodeWires))
        s2 == AttachPredecessors(s1, predecessors, wiresOf, nodeWires)
        s3 == AttachSuccessors(s2, successors, wiresOf, nodeWires)
        s4 == AddCutEdges(s3, SortedSeq(DOMAIN s3.measure_wires))
    IN [node |-> node, wires |-> nodeWires, before |-> graph, graph |-> s4.graph,
        predecessors |-> predecessors, successors |-> successors,
        measure_wires |-> s4.measure_wires, prepare_wires |-> s4.prepare_wires]

\* --------------------------------------------------------- fragment_graph
IsPlaceholder(n) == n.kind \in {"MeasureNode", "PrepareNode"}

IsCutEdge(e) == e.pair # NoPair

WithoutCutEdges(graph) ==
    [graph EXCEPT !.edges = SelectSeq(@, LAMBDA e : ~IsCutEdge(e))]

Neighbours(graph, S) ==
    {e.v : e \in {x \in Range(graph.edges) : x.u \in S}}
        \cup {e.u : e \in {x \in Range(graph.edges) : x.v \in S}}

RECURSIVE Reach(_, _, _)
Reach(graph, frontier, seen) ==
    IF frontier = {} THEN seen
    ELSE LET nxt == Neighbours(graph, frontier) \ seen
         IN Reach(graph, nxt, seen \cup nxt)

RECURSIVE ComponentsFrom(_, _, _)
ComponentsFrom(graph, ns, acc) ==
    IF ns = << >> THEN acc
    ELSE IF \E k \in DOMAIN acc : ns[1].id \in acc[k]
         THEN ComponentsFrom(graph, Tail(ns), acc)
         ELSE ComponentsFrom(graph, Tail(ns),
                             Append(acc, Reach(graph, {ns[1].id}, {ns[1].id})))

weakly_connected_components(graph) == ComponentsFrom(graph, graph.nodes, << >>)

Subgraph(graph, S) ==
    [nodes |-> SelectSeq(graph.nodes, LAMBDA n : n.id \in S),
     edges |-> SelectSeq(graph.edges, LAMBDA e : e.u \in S /\ e.v \in S)]

FragmentOf(components, id) == CHOOSE k \in DOMAIN components : id \in components[k]

fragment_graph(graph) ==
    LET graph_copy == WithoutCutEdges(graph)
        components == weakly_connected_components(graph_copy)
        cut_edges == SelectSeq(graph.edges, IsCutEdge)
    IN [fragments |-> [k \in DOMAIN components |-> Subgraph(graph_copy, components[k])],
        communication_graph |->
            [nodes |-> [k \in DOMAIN components |-> k],
             edges |-> [k \in DOMAIN cut_edges |->
                           [u |-> FragmentOf(components, cut_edges[k].u),
                            v |-> FragmentOf(components, cut_edges[k].v),
                            pair |-> cut_edges[k].pair]]]]

\* ----------------------------------------------------------- graph_to_tape
RECURSIVE TopologicalOrder(_, _, _)
TopologicalOrder(f, remaining, acc) ==
    IF remaining = << >> THEN acc
    ELSE LET left == {n.id : n \in Range(remaining)}
             ready(n) == \A e \in Range(f.edges) : e.v = n.id => e.u \notin left
             k == CHOOSE j \in DOMAIN remaining :
                      /\ ready(remaining[j])
                      /\ \A h \in 1 .. (j - 1) : ~ready(remaining[h])
         IN TopologicalOrder(f, SelectSeq(remaining, LAMBDA n : n.id # remaining[k].id),
                             Append(acc, remaining[k]))

graph_to_tape(f) == TopologicalOrder(f, f.nodes, << >>)

\* --------------------------------------------------- expand_fragment_tapes
\* The basis alphabet is implementation-defined; two choices per placeholder
\* are the smallest alphabet that makes a fragment's configurations differ.
AlphabetSize == 2

RECURSIVE Pow(_, _)
Pow(a, p) == IF p = 0 THEN 1 ELSE a * Pow(a, p - 1)

NumPlaceholders(t) == Len(SelectSeq(t, IsPlaceholder))

\* One tape per configuration: the fragment's operations with the c-th basis
\* assignment of the mixed-radix enumeration over its placeholders.
expand_fragment_tapes(t) ==
    [c \in 1 .. Pow(AlphabetSize, NumPlaceholders(t)) |->
        [operations |-> [k \in DOMAIN t |-> t[k].id], configuration |-> c]]

\* -------------------------------------------------------------- cut_circuit
\* Mutant of CutCircuitReturn: shapes counts each fragment tape's operations.
CutCircuitReturnTapeLengths(fs, cg) ==
    LET fragment_tapes == [k \in DOMAIN fs |-> graph_to_tape(fs[k])]
        configurations == [k \in DOMAIN fragment_tapes |->
                              expand_fragment_tapes(fragment_tapes[k])]
        shapes == [k \in DOMAIN configurations |-> Len(fragment_tapes[k])]
    IN [fragment_tapes |-> fragment_tapes,
        configurations |-> configurations,
        tapes |-> Flatten(configurations),
        post |-> [shapes |-> shapes, communication_graph |-> cg]]

CutCircuitReturn(fs, cg) ==
    LET fragment_tapes == [k \in DOMAIN fs |-> graph_to_tape(fs[k])]
        configurations == [k \in DOMAIN fragment_tapes |->
                              expand_fragment_tapes(fragment_tapes[k])]
        shapes == [k \in DOMAIN configurations |-> Len(configurations[k])]
    IN [fragment_tapes |-> fragment_tapes,
        configurations |-> configurations,
        tapes |-> Flatten(configurations),
        post |-> [shapes |-> shapes, communication_graph |-> cg]]

\* ============================================================== _grad.py
\* An argument is modelled by its requires_grad attribute ("None": it has
\* none); argument positions are Python's, counted from 0.  An argnum is
\* [kind, idx]: None, a single integer k (idx = <<k>>) or a sequence.  An
\* optional value is the empty sequence (None) or a one-element sequence.
MaxArgs == 2

RequiresGrad == {"True", "False", "None"}
ArgLists == UNION {[1 .. n -> RequiresGrad] : n \in 0 .. MaxArgs}
ArgPositions == 0 .. (MaxArgs - 1)
NoArgnum == [kind |-> "None", idx |-> << >>]
IntArgnum(k) == [kind |-> "int", idx |-> <<k>>]
SeqArgnum(q) == [kind |-> "seq", idx |-> q]
PositionSeqs ==
    {<< >>} \cup {<<a>> : a \in ArgPositions}
        \cup {<<x[1], x[2]>> : x \in {y \in ArgPositions \X ArgPositions : y[1] # y[2]}}
Argnums ==
    {NoArgnum} \cup {IntArgnum(k) : k \in ArgPositions}
        \cup {SeqArgnum(q) : q \in PositionSeqs}
\* What fun returns on a call: the size of its output and the value.
Outputs == [size : {1, 2}, value : {1, 2}]

\* The loop of grad._get_grad_fn and of jacobian._get_argnum.
RECURSIVE TrainableFrom(_, _)
TrainableFrom(args, k) ==
    IF k > Len(args) THEN << >>
    ELSE LET trainable == IF args[k] = "None" THEN "True" ELSE args[k]
         IN (IF trainable = "True" THEN <<k - 1>> ELSE << >>) \o TrainableFrom(args, k + 1)

\* args[i] for every i of the argnum raises IndexError past the end.
OutOfRange(argnum, args) == \E k \in DOMAIN argnum.idx : argnum.idx[k] >= Len(args)

\* ----------------------------------------------------------------- grad
grad_init(argnum) ==
    [_forward |-> << >>,
     _argnum |-> argnum,
     _grad_fn |-> IF argnum.kind # "None" THEN <<argnum>> ELSE << >>]

\* Mutant of get_grad_fn: the inferred gradient function is kept in _grad_fn.
get_grad_fn_cached(self, args) ==
    IF self._grad_fn # << >> THEN [self |-> self, argnum |-> self._grad_fn[1]]
    ELSE LET argnum == TrainableFrom(args, 1)
             fn == IF Len(argnum) = 1 THEN IntArgnum(argnum[1]) ELSE SeqArgnum(argnum)
         IN [self |-> [self EXCEPT !._grad_fn = <<fn>>], argnum |-> fn]

\* The gradient function to call, as the argnum it is bound to.
get_grad_fn(self, args) ==
    IF self._grad_fn # << >> THEN [self |-> self, argnum |-> self._grad_fn[1]]
    ELSE LET argnum == TrainableFrom(args, 1)
         IN [self |-> self,
             argnum |-> IF Len(argnum) = 1 THEN IntArgnum(argnum[1]) ELSE SeqArgnum(argnum)]

grad_with_forward(argnum, args, out) ==
    IF OutOfRange(argnum, args) THEN [raised |-> "IndexError", ans |-> << >>]
    ELSE IF out.size # 1 THEN [raised |-> "TypeError", ans |-> << >>]
    ELSE [raised |-> "none", ans |-> <<out.value>>]

\* Mutant of grad_call: the forward value is stored before the scalar test.
grad_call_stores_first(self, args, out) ==
    LET fn == get_grad_fn(self, args)
        r == grad_with_forward(fn.argnum, args, out)
    IN [self |-> IF r.raised = "IndexError" THEN fn.self
                 ELSE [fn.self EXCEPT !._forward = <<out.value>>],
        raised |-> r.raised, wrt |-> fn.argnum]

\* grad.__call__
grad_call(self, args, out) ==
    LET fn == get_grad_fn(self, args)
        r == grad_with_forward(fn.argnum, args, out)
    IN [self |-> IF r.raised = "none" THEN [fn.self EXCEPT !._forward = r.ans] ELSE fn.self,
        raised |-> r.raised, wrt |-> fn.argnum]

\* grad.forward (the property)
forward(self) == [self |-> self, value |-> self._forward]

NoGradObject == grad_init(NoArgnum)
NoCall == [args |-> << >>, wrt |-> NoArgnum, raised |-> "no call"]
NoGradTrace == [last |-> NoCall, last_ok |-> << >>, prev_wrt |-> << >>, read |-> << >>]

\* ------------------------------------------------------------- jacobian
\* Mutant of jacobian_function: a sequence argnum of length one is unpacked too.
jacobian_function_unpacks_singletons(argnum, args) ==
    LET _argnum == IF argnum.kind = "None" THEN TrainableFrom(args, 1) ELSE argnum.idx
        unpack == Len(_argnum) = 1
        jacs == [k \in DOMAIN _argnum |-> [wrt |-> _argnum[k]]]
    IN IF OutOfRange([kind |-> "seq", idx |-> _argnum], args)
       THEN [argnum |-> argnum, args |-> args, raised |-> "IndexError",
             is_tuple |-> FALSE, entries |-> << >>]
       ELSE [argnum |-> argnum, args |-> args, raised |-> "none",
             is_tuple |-> ~unpack, entries |-> IF unpack THEN <<jacs[1]>> ELSE jacs]

\* _jacobian_function: the value returned is a tuple (is_tuple) of the entries,
\* or the single entry itself; each entry is the Jacobian for one argument.
jacobian_function(argnum, args) ==
    LET _argnum == IF argnum.kind = "None" THEN TrainableFrom(args, 1) ELSE argnum.idx
        unpack == IF argnum.kind = "None" THEN Len(_argnum) = 1 ELSE argnum.kind = "int"
        jacs == [k \in DOMAIN _argnum |-> [wrt |-> _argnum[k]]]
    IN IF OutOfRange([kind |-> "seq", idx |-> _argnum], args)
       THEN [argnum |-> argnum, args |-> args, raised |-> "IndexError",
             is_tuple |-> FALSE, entries |-> << >>]
       ELSE [argnum |-> argnum, args |-> args, raised |-> "none",
             is_tuple |-> ~unpack, entries |-> IF unpack THEN <<jacs[1]>> ELSE jacs]

NoJacobianCall ==
    [argnum |-> NoArgnum, args |-> << >>, raised |-> "no call",
     is_tuple |-> FALSE, entries |-> << >>]

\* ---------------------------------------------------------- finite_diff
\* An argument is modelled by its array shape: << >> a scalar (ndim 0), <<2>>
\* a vector of two elements.  idx is None (<< >>) or <<list of indices>>.
ArgShapes == {<< >>, <<2>>}
ShapeLists == UNION {[1 .. n -> ArgShapes] : n \in 0 .. MaxArgs}
IdxLists == {<<0>>, <<0, 1>>, <<1, 1>>, <<0, 1, 0>>}
Idxs == {<< >>} \cup {<<l>> : l \in IdxLists}
FdArgnums == (0 - MaxArgs - 1) .. MaxArgs
Orders == {1, 2, 3}

\* Python's args[:k] and args[k:]
SliceTo(args, k) ==
    LET n == Len(args)
        stop == IF k < 0 THEN (IF n + k < 0 THEN 0 ELSE n + k) ELSE (IF k > n THEN n ELSE k)
    IN SubSeq(args, 1, stop)
SliceFrom(args, k) ==
    LET n == Len(args)
        start == IF k < 0 THEN (IF n + k < 0 THEN 0 ELSE n + k) ELSE (IF k > n THEN n ELSE k)
    IN SubSeq(args, start + 1, n)
\* Python's args[k], for a k for which it does not raise IndexError
Item(args, k) == IF k < 0 THEN args[Len(args) + k + 1] ELSE args[k + 1]
\* The positional arguments of f(*args[:argnum], x, *args[argnum + 1 :])
CallArgs(args, argnum) ==
    SliceTo(args, argnum) \o <<Item(args, argnum)>> \o SliceFrom(args, argnum + 1)

FdRaise(fn, args, error) ==
    [fn EXCEPT !.args = args, !.raised = error, !.f_evals = 0, !.f_nargs = << >>]
FdReturn(fn, args, evals) ==
    [fn EXCEPT !.args = args, !.raised = "none", !.f_evals = evals,
               !.f_nargs = IF evals = 0 THEN << >> ELSE <<Len(CallArgs(args, fn.argnum))>>]

fd_first_order_centered(fn, args) ==
    IF fn.argnum > Len(args) - 1 THEN FdRaise(fn, args, "ValueError")
    ELSE IF fn.argnum < 0 - Len(args) THEN FdRaise(fn, args, "IndexError")
    ELSE LET x == Item(args, fn.argnum)
         IN IF Len(x) = 0 /\ fn.idx # << >> THEN FdRaise(fn, args, "ValueError")
            ELSE LET idx == IF fn.idx = << >>
                            THEN (IF Len(x) = 0 THEN <<0>> ELSE [k \in 1 .. x[1] |-> k - 1])
                            ELSE fn.idx[1]
                 IN FdReturn(fn, args, 2 * Len(idx))

fd_second_order_centered(fn, args) ==
    IF fn.argnum > Len(args) - 1 THEN FdRaise(fn, args, "ValueError")
    ELSE IF fn.argnum < 0 - Len(args) THEN FdRaise(fn, args, "IndexError")
    ELSE LET x == Item(args, fn.argnum)
         IN IF Len(x) = 0 /\ fn.idx # << >> THEN FdRaise(fn, args, "ValueError")
            ELSE IF fn.idx = << >> /\ Len(x) # 0 THEN FdRaise(fn, args, "ValueError")
            ELSE IF fn.idx # << >> /\ Len(fn.idx[1]) > 2 THEN FdRaise(fn, args, "ValueError")
            ELSE LET idx == IF fn.idx = << >> THEN <<0, 0>> ELSE fn.idx[1]
                 IN IF Len(idx) # 2 THEN FdRaise(fn, args, "ValueError")
                    ELSE IF idx[1] = idx[2] THEN FdReturn(fn, args, 3)
                    ELSE FdReturn(fn, args, 4)

\* finite_diff: the partial made, or the error raised instead of one.
finite_diff(is_callable, N, argnum, idx, delta) ==
    [made |-> IF ~is_callable THEN "TypeError"
              ELSE IF delta <= 0 THEN "ValueError"
              ELSE IF N \in {1, 2} THEN "partial"
              ELSE "ValueError",
     N |-> N, argnum |-> argnum, idx |-> idx,
     args |-> << >>, raised |-> "no call", f_evals |-> 0, f_nargs |-> << >>]

\* Calling the partial that finite_diff returned.
fd_apply(fn, args) ==
    IF fn.N = 1 THEN fd_first_order_centered(fn, args) ELSE fd_second_order_centered(fn, args)

NoFiniteDiffCall == finite_diff(FALSE, 1, 0, << >>, 0)

\* ==================================================== interfaces/batch/jax.py
\* A tape is its parameters (TRUE: a trainable parameter) and trainable_params.
MaxTapes == 2
MaxOrder == 2

ParamLists == {<< >>, <<TRUE>>, <<FALSE>>, <<TRUE, FALSE>>, <<FALSE, TRUE>>}
AllIndices(params) == {k - 1 : k \in DOMAIN params}
JaxTapes ==
    UNION {{[params |-> q, trainable_params |-> t] : t \in {{}, AllIndices(q)}} :
              q \in ParamLists}
TapeBatchesOf(T) == UNION {[1 .. n -> T] : n \in 0 .. MaxTapes}
GradientFns == {"None", "gradient_transform", "device_method"}

get_trainable_indices(params) == {k - 1 : k \in {d \in DOMAIN params : params[d]}}

\* Mutant of MaxDiffTooHigh: second order is let through.
MaxDiffTooHighAboveTwo(max_diff) == max_diff > 2
\* if max_diff > 1
MaxDiffTooHigh(max_diff) == max_diff > 1

\* if gradient_fn is None: _execute_with_fwd, otherwise _execute
ExecutePath(gradient_fn) == IF gradient_fn = "None" THEN "_execute_with_fwd" ELSE "_execute"

NoExecute ==
    [pc |-> "idle", max_diff |-> 0, gradient_fn |-> "None", tapes |-> << >>,
     tapes0 |-> << >>, k |-> 1, raised |-> "none", path |-> "none",
     execute_fn_calls |-> 0, gradient_fn_calls |-> 0]

\* ------------------------------------------------------------- the state
\* cut_circuit: its arguments (tape, and ceiling, the configuration budget a
\* caller passes among **kwargs), its position and its locals.
VARIABLES tape, ceiling, pc, i, g, g0, calls, fragments, communication_graph, ret

\* grad: the object (grad_obj) and what its calls and reads of forward did.
VARIABLES grad_obj, grad_trace

\* jacobian, finite_diff: the last call of the returned function.
VARIABLES jac, fd

\* interfaces/batch/jax.py execute: one call in progress.
VARIABLES jx

cutVars == <<tape, ceiling, pc, i, g, g0, calls, fragments, communication_graph, ret>>

gradVars == <<grad_obj, grad_trace>>

vars == <<tape, ceiling, pc, i, g, g0, calls, fragments, communication_graph, ret,
          grad_obj, grad_trace, jac, fd, jx>>

NoCeiling == 0

NoGraph == [nodes |-> << >>, edges |-> << >>]
NoReturn == [fragment_tapes |-> << >>, configurations |-> << >>, tapes |-> << >>,
             post |-> [shapes |-> << >>, communication_graph |-> NoGraph]]

CutInit ==
    /\ tape \in Tapes
    /\ pc = "tape_to_graph"
    /\ i = 1
    /\ g = EmptyGraph
    /\ g0 = EmptyGraph
    /\ calls = << >>
    /\ fragments = << >>
    /\ communication_graph = NoGraph
    /\ ret = NoReturn

CutIdle ==
    /\ tape = << >>
    /\ ceiling = NoCeiling
    /\ pc = "idle"
    /\ i = 1
    /\ g = EmptyGraph
    /\ g0 = EmptyGraph
    /\ calls = << >>
    /\ fragments = << >>
    /\ communication_graph = NoGraph
    /\ ret = NoReturn

GradIdle == grad_obj = NoGradObject /\ grad_trace = NoGradTrace

JacIdle == jac = NoJacobianCall

FdIdle == fd = NoFiniteDiffCall

JaxIdle == jx = NoExecute

Init == CutInit /\ ceiling = NoCeiling /\ GradIdle /\ JacIdle /\ FdIdle /\ JaxIdle

TapeToGraph ==
    /\ pc = "tape_to_graph"
    /\ g' = tape_to_graph(tape)
    /\ g0' = g'
    /\ pc' = "resolve"
    /\ UNCHANGED <<tape, i, calls, fragments, communication_graph, ret>>
    /\ UNCHANGED <<ceiling, gradVars, jac, fd, jx>>

\* tape.operations[k] is the node with identity k: tape_to_graph numbers them so.
ResolveWireCut ==
    /\ pc = "resolve"
    /\ i <= Len(tape)
    /\ tape[i].kind = "WireCut"
    /\ LET r == remove_wire_cut_node(i, g)
       IN /\ g' = r.graph
          /\ calls' = Append(calls, r)
    /\ i' = i + 1
    /\ UNCHANGED <<tape, pc, g0, fragments, communication_graph, ret>>
    /\ UNCHANGED <<ceiling, gradVars, jac, fd, jx>>

\* Mutant of SkipOperation: the isinstance test is lost and every operation
\* is handed to remove_wire_cut_node.
SkipOperationResolves ==
    /\ pc = "resolve"
    /\ i <= Len(tape)
    /\ tape[i].kind # "WireCut"
    /\ LET r == remove_wire_cut_node(i, g)
       IN /\ g' = r.graph
          /\ calls' = Append(calls, r)
    /\ i' = i + 1
    /\ UNCHANGED <<tape, pc, g0, fragments, communication_graph, ret>>
    /\ UNCHANGED <<ceiling, gradVars, jac, fd, jx>>

SkipOperation ==
    /\ pc = "resolve"
    /\ i <= Len(tape)
    /\ tape[i].kind # "WireCut"
    /\ i' = i + 1
    /\ UNCHANGED <<tape, pc, g, g0, calls, fragments, communication_graph, ret>>
    /\ UNCHANGED <<ceiling, gradVars, jac, fd, jx>>

\* method is None: find_and_place_cuts is not called.
FragmentGraph ==
    /\ pc = "resolve"
    /\ i > Len(tape)
    /\ LET r == fragment_graph(g)
       IN /\ fragments' = r.fragments
          /\ communication_graph' = r.communication_graph
    /\ pc' = "expand"
    /\ UNCHANGED <<tape, i, g, g0, calls, ret>>
    /\ UNCHANGED <<ceiling, gradVars, jac, fd, jx>>

ExpandAndReturn ==
    /\ pc = "expand"
    /\ ret' = CutCircuitReturn(fragments, communication_graph)
    /\ pc' = "done"
    /\ UNCHANGED <<tape, i, g, g0, calls, fragments, communication_graph>>
    /\ UNCHANGED <<ceiling, gradVars, jac, fd, jx>>

Next ==
    \/ TapeToGraph
    \/ ResolveWireCut
    \/ SkipOperation
    \/ FragmentGraph
    \/ ExpandAndReturn

Spec == Init /\ [][Next]_vars

\* ------------------------------------------- cut_circuit called with a ceiling
MaxCeiling == 2

InitBudget ==
    CutInit /\ ceiling \in 1 .. MaxCeiling /\ GradIdle /\ JacIdle /\ FdIdle /\ JaxIdle

SpecBudget == InitBudget /\ [][Next]_vars

\* ------------------------------------------------------- a grad object's life
InitGrad ==
    /\ CutIdle /\ JacIdle /\ FdIdle /\ JaxIdle
    /\ grad_obj \in {grad_init(argnum) : argnum \in Argnums}
    /\ grad_trace = NoGradTrace

\* One call of the grad object.  grad_trace records the call (its arguments,
\* what it differentiated with respect to, what it raised), the forward value
\* of the latest call that returned (last_ok), what the call before it
\* differentiated with respect to, and forgets the last read of forward.
GradCall ==
    /\ \E args \in ArgLists, out \in Outputs :
          LET r == grad_call(grad_obj, args, out)
          IN /\ grad_obj' = r.self
             /\ grad_trace' =
                   [last |-> [args |-> args, wrt |-> r.wrt, raised |-> r.raised],
                    last_ok |-> IF r.raised = "none" THEN <<out.value>>
                                ELSE grad_trace.last_ok,
                    prev_wrt |-> IF grad_trace.last.raised = "no call" THEN << >>
                                 ELSE <<grad_trace.last.wrt>>,
                    read |-> << >>]
    /\ UNCHANGED <<cutVars, jac, fd, jx>>

\* One read of the forward property; grad_trace.read holds what it returned.
GradReadForward ==
    /\ LET r == forward(grad_obj)
       IN /\ grad_obj' = r.self
          /\ grad_trace' = [grad_trace EXCEPT !.read = <<r.value>>]
    /\ UNCHANGED <<cutVars, jac, fd, jx>>

NextGrad ==
    \/ GradCall
    \/ GradReadForward

SpecGrad == InitGrad /\ [][NextGrad]_vars

\* ----------------------------------------- the function jacobian returned
InitJacobian ==
    /\ CutIdle /\ GradIdle /\ FdIdle /\ JaxIdle
    /\ jac \in {[NoJacobianCall EXCEPT !.argnum = argnum] : argnum \in Argnums}

\* One call of the function returned by jacobian(func, argnum).
JacobianCall ==
    /\ \E args \in ArgLists : jac' = jacobian_function(jac.argnum, args)
    /\ UNCHANGED <<cutVars, gradVars, fd, jx>>

NextJacobian == JacobianCall

SpecJacobian == InitJacobian /\ [][NextJacobian]_vars

\* -------------------------------------- the function finite_diff returned
InitFiniteDiff ==
    /\ CutIdle /\ GradIdle /\ JacIdle /\ JaxIdle
    /\ fd \in {finite_diff(is_callable, N, argnum, idx, delta) :
                  is_callable \in BOOLEAN, N \in Orders, argnum \in FdArgnums,
                  idx \in Idxs, delta \in {0, 1}}

\* One call of the partial returned by finite_diff.
FiniteDiffCall ==
    /\ fd.made = "partial"
    /\ \E args \in ShapeLists : fd' = fd_apply(fd, args)
    /\ UNCHANGED <<cutVars, gradVars, jac, jx>>

NextFiniteDiff == FiniteDiffCall

SpecFiniteDiff == InitFiniteDiff /\ [][NextFiniteDiff]_vars

\* ------------------------------------------------ one call of jax execute
InitJax ==
    /\ CutIdle /\ GradIdle /\ JacIdle /\ FdIdle
    /\ \E tapes \in TapeBatchesOf(JaxTapes), max_diff \in 0 .. MaxOrder,
          gradient_fn \in GradientFns :
          jx = [NoExecute EXCEPT !.pc = "execute", !.max_diff = max_diff,
                                 !.gradient_fn = gradient_fn,
                                 !.tapes = tapes, !.tapes0 = tapes]

\* if max_diff > 1: raise ValueError
JaxCheckMaxDiff ==
    /\ jx.pc = "execute"
    /\ jx' = IF MaxDiffTooHigh(jx.max_diff)
             THEN [jx EXCEPT !.pc = "raised", !.raised = "ValueError"]
             ELSE [jx EXCEPT !.pc = "for_tape", !.k = 1]
    /\ UNCHANGED <<cutVars, gradVars, jac, fd>>

\* One turn of the loop over the tapes.
JaxSetTrainable ==
    /\ jx.pc = "for_tape"
    /\ jx.k <= Len(jx.tapes)
    /\ jx' = [jx EXCEPT !.tapes[jx.k].trainable_params =
                            get_trainable_indices(jx.tapes[jx.k].params),
                        !.k = jx.k + 1]
    /\ UNCHANGED <<cutVars, gradVars, jac, fd>>

\* The loop is over: the test of gradient_fn chooses the function to return
\* through.
JaxDispatch ==
    /\ jx.pc = "for_tape"
    /\ jx.k > Len(jx.tapes)
    /\ jx' = [jx EXCEPT !.pc = "wrapped_exec", !.path = ExecutePath(jx.gradient_fn)]
    /\ UNCHANGED <<cutVars, gradVars, jac, fd>>

\* wrapped_exec of either path: the forward pass calls execute_fn once.
JaxForwardPass ==
    /\ jx.pc = "wrapped_exec"
    /\ jx' = [jx EXCEPT !.pc = "returned", !.execute_fn_calls = jx.execute_fn_calls + 1]
    /\ UNCHANGED <<cutVars, gradVars, jac, fd>>

\* wrapped_exec_bwd of either path, when JAX differentiates the result: the
\* forward-mode path reuses the Jacobians of the forward pass; the other path
\* hands gradient_fn to batch_vjp and executes the tapes it makes, or calls
\* gradient_fn when it is a device method.
JaxBackwardPass ==
    /\ jx.pc = "returned"
    /\ jx' = IF jx.path = "_execute_with_fwd" THEN [jx EXCEPT !.pc = "differentiated"]
             ELSE IF jx.gradient_fn = "gradient_transform"
             THEN [jx EXCEPT !.pc = "differentiated",
                             !.gradient_fn_calls = jx.gradient_fn_calls + 1,
                             !.execute_fn_calls = jx.execute_fn_calls + 1]
             ELSE [jx EXCEPT !.pc = "differentiated",
                             !.gradient_fn_calls = jx.gradient_fn_calls + 1]
    /\ UNCHANGED <<cutVars, gradVars, jac, fd>>

NextJax ==
    \/ JaxCheckMaxDiff
    \/ JaxSetTrainable
    \/ JaxDispatch
    \/ JaxForwardPass
    \/ JaxBackwardPass

SpecJax == InitJax /\ [][NextJax]_vars

\* ------------------------------------------------- vocabulary of the claims
Resolved == pc # "tape_to_graph" /\ i > Len(tape)

Fragmented == pc \in {"expand", "done"}

Cuts == {k \in DOMAIN tape : tape[k].kind = "WireCut"}

RECURSIVE SumWires(_)
SumWires(S) ==
    IF S = {} THEN 0
    ELSE LET k == CHOOSE x \in S : TRUE
         IN Cardinality(tape[k].wires) + SumWires(S \ {k})

\* The operation before / after position k on wire w in program order (0: none).
TapePred(k, w) ==
    LET S == {j \in 1 .. (k - 1) : w \in tape[j].wires}
    IN IF S = {} THEN 0 ELSE CHOOSE j \in S : \A h \in S : h <= j

TapeSucc(k, w) ==
    LET S == {j \in (k + 1) .. Len(tape) : w \in tape[j].wires}
    IN IF S = {} THEN 0 ELSE CHOOSE j \in S : \A h \in S : j <= h

CallOf(k) == CHOOSE c \in Range(calls) : c.node = k

\* The node that feeds marker c.node on wire w when it is resolved: the gate
\* before it, or the PrepareNode paired on w for the marker before it.
TruePred(c, w) ==
    LET j == TapePred(c.node, w)
    IN IF j = 0 THEN {}
       ELSE IF tape[j].kind = "WireCut" THEN {CallOf(j).prepare_wires[w]}
       ELSE {j}

TrueSucc(c, w) ==
    LET j == TapeSucc(c.node, w)
    IN IF j = 0 THEN {} ELSE {j}

KindOf(graph, id) == NodeOf(graph, id).kind

DataEdges(graph) == {e \in Range(graph.edges) : ~IsCutEdge(e)}

CutEdgeIdx(graph) == {k \in DOMAIN graph.edges : IsCutEdge(graph.edges[k])}

Created(c) == {n \in Range(c.graph.nodes) : n.id >= c.before.fresh}

IsChain ==
    /\ Len(tape) = 3
    /\ \E w \in Wires : \A k \in 1 .. 3 : tape[k].wires = {w}
    /\ tape[1].kind = "Gate" /\ tape[2].kind = "WireCut" /\ tape[3].kind = "Gate"

\* --------------------------------------------------------------- the claims

\* C1: once every WireCut is resolved, every MeasureNode is the source of
\* exactly one cut edge, whose target is a PrepareNode on the same wire, and
\* every PrepareNode is the target of exactly one cut edge, whose source is a
\* MeasureNode on the same wire.
C1_EveryPlaceholderPaired ==
    Resolved =>
        \A n \in Range(g.nodes) :
            /\ n.kind = "MeasureNode" =>
                  /\ Cardinality({k \in CutEdgeIdx(g) : g.edges[k].u = n.id}) = 1
                  /\ \A k \in CutEdgeIdx(g) : g.edges[k].u = n.id =>
                        /\ KindOf(g, g.edges[k].v) = "PrepareNode"
                        /\ NodeOf(g, g.edges[k].v).wires = n.wires
            /\ n.kind = "PrepareNode" =>
                  /\ Cardinality({k \in CutEdgeIdx(g) : g.edges[k].v = n.id}) = 1
                  /\ \A k \in CutEdgeIdx(g) : g.edges[k].v = n.id =>
                        /\ KindOf(g, g.edges[k].u) = "MeasureNode"
                        /\ NodeOf(g, g.edges[k].u).wires = n.wires

\* C2: for k single-wire markers, each with a predecessor and a successor on
\* its wire, the resolved graph has the node count of the graph before
\* resolution plus 2k minus the k markers.
C2_NodeCountPlus2kMinusK ==
    (/\ Resolved
     /\ \A k \in Cuts : \E w \in Wires :
            tape[k].wires = {w} /\ TapePred(k, w) # 0 /\ TapeSucc(k, w) # 0)
        => Len(g.nodes) = Len(g0.nodes) + 2 * Cardinality(Cuts) - Cardinality(Cuts)

\* C3: on every wire w of a resolved marker the paired MeasureNode is fed only
\* by the marker's predecessor on w and the paired PrepareNode feeds only the
\* marker's successor on w; no placeholder made for wire w is attached to any
\* other operation.
C3_PlaceholdersAttachedPerWire ==
    \A c \in Range(calls) : \A w \in c.wires :
        /\ \A e \in DataEdges(c.graph) :
              /\ e.v = c.measure_wires[w] => e.u \in TruePred(c, w)
              /\ e.u = c.prepare_wires[w] => e.v \in TrueSucc(c, w)
        /\ \A n \in Created(c) : n.wires = {w} =>
              \A e \in DataEdges(c.graph) :
                  /\ e.v = n.id => e.u \in TruePred(c, w)
                  /\ e.u = n.id => e.v \in TrueSucc(c, w)

\* C4: when fragment_graph is called the graph holds no WireCut node (while
\* the loop runs it holds exactly the markers not yet visited), and no WireCut
\* appears in a fragment or a fragment tape.
C4_NoWireCutAtFragmentation ==
    /\ pc # "tape_to_graph" =>
          {n.id : n \in {x \in Range(g.nodes) : x.kind = "WireCut"}}
              = {k \in Cuts : k >= i}
    /\ Fragmented =>
          \A f \in DOMAIN fragments : \A n \in Range(fragments[f].nodes) :
              n.kind # "WireCut"
    /\ \A f \in DOMAIN ret.fragment_tapes : \A n \in Range(ret.fragment_tapes[f]) :
          n.kind # "WireCut"

C4_Witness ==
    /\ pc = "done"
    /\ \E k \in Cuts : k + 1 \in Cuts /\ tape[k].wires \cap tape[k + 1].wires # {}
    /\ \E k \in DOMAIN tape : tape[k].kind = "Gate"

\* C5: once all markers are resolved the graph has one cut edge per wire of
\* each resolved marker, and the communication graph has as many edges.
C5_CutEdgeCount ==
    /\ Resolved => Cardinality(CutEdgeIdx(g)) = SumWires(Cuts)
    /\ Fragmented => Len(communication_graph.edges) = SumWires(Cuts)

C5_Witness ==
    /\ pc = "done"
    /\ Cardinality(Cuts) >= 2
    /\ \E k \in Cuts : Cardinality(tape[k].wires) >= 2
    /\ Len(communication_graph.edges) >= 3

\* C6: every cut has its cut edge; a cut edge runs from a MeasureNode to a
\* PrepareNode, carries exactly that (measure, prepare) pair and is the only
\* edge between the two; no other edge carries a pair.
C6_CutEdgeIsTheOnlyLink ==
    /\ \A c \in Range(calls) : \A w \in c.wires :
          \E k \in CutEdgeIdx(g) :
              g.edges[k].u = c.measure_wires[w] /\ g.edges[k].v = c.prepare_wires[w]
    /\ \A k \in DOMAIN g.edges :
          LET e == g.edges[k]
          IN /\ IsCutEdge(e) <=>
                    (KindOf(g, e.u) = "MeasureNode" /\ KindOf(g, e.v) = "PrepareNode")
             /\ IsCutEdge(e) =>
                    /\ e.pair = <<e.u, e.v>>
                    /\ {h \in DOMAIN g.edges :
                           {g.edges[h].u, g.edges[h].v} = {e.u, e.v}} = {k}

C6_Witness ==
    /\ Resolved
    /\ \E c \in Range(calls) : c.predecessors # << >> /\ c.successors # << >>
    /\ \E e \in DataEdges(g) :
          KindOf(g, e.u) = "PrepareNode" /\ KindOf(g, e.v) = "MeasureNode"

\* C7: fragments are the weakly-connected components with cut edges taken as
\* boundaries, a cut whose two placeholders are linked only by the cut edge has
\* them in different fragments, no node is in two fragments, and a chain of
\* two operations on one wire with one WireCut between them gives exactly two
\* fragments.
C7_ChainYieldsTwoFragments ==
    Fragmented =>
        /\ \A a, b \in DOMAIN fragments :
              a # b => NodeIds(fragments[a]) \cap NodeIds(fragments[b]) = {}
        /\ \A k \in CutEdgeIdx(g) :
              LET e == g.edges[k]
              IN e.v \notin Reach(WithoutCutEdges(g), {e.u}, {e.u}) =>
                     \A f \in DOMAIN fragments :
                         ~(e.u \in NodeIds(fragments[f]) /\ e.v \in NodeIds(fragments[f]))
        /\ IsChain => Len(fragments) = 2

\* C8: a marker that is first (last) on a wire still gets its MeasureNode and
\* PrepareNode on that wire, linked by exactly one cut edge, and the MeasureNode
\* (PrepareNode) on the open side has no data edge.
C8_OpenBoundaryPlaceholders ==
    \A c \in Range(calls) : \A w \in c.wires :
        LET m == c.measure_wires[w]
            p == c.prepare_wires[w]
        IN (TapePred(c.node, w) = 0 \/ TapeSucc(c.node, w) = 0) =>
               /\ m \in NodeIds(g) /\ p \in NodeIds(g)
               /\ NodeOf(g, m) = [id |-> m, kind |-> "MeasureNode", wires |-> {w}]
               /\ NodeOf(g, p) = [id |-> p, kind |-> "PrepareNode", wires |-> {w}]
               /\ Cardinality({k \in CutEdgeIdx(g) :
                                  g.edges[k].u = m /\ g.edges[k].v = p}) = 1
               /\ TapePred(c.node, w) = 0 =>
                      \A e \in DataEdges(g) : e.u # m /\ e.v # m
               /\ TapeSucc(c.node, w) = 0 =>
                      \A e \in DataEdges(g) : e.u # p /\ e.v # p

C8_Witness ==
    /\ Resolved
    /\ \E c \in Range(calls) : \E w \in c.wires :
          TapePred(c.node, w) = 0 /\ TapeSucc(c.node, w) # 0
    /\ \E c \in Range(calls) : \E w \in c.wires :
          TapePred(c.node, w) # 0 /\ TapeSucc(c.node, w) = 0

\* Operations of the program linked by a chain of shared wires.
RECURSIVE TapeClass(_, _)
TapeClass(frontier, seen) ==
    IF frontier = {} THEN seen
    ELSE LET nxt == {k \in DOMAIN tape :
                        \E j \in frontier : tape[j].wires \cap tape[k].wires # {}} \ seen
         IN TapeClass(nxt, seen \cup nxt)

TapeClasses == {TapeClass({k}, {k}) : k \in DOMAIN tape}

TapeNodes == {[id |-> k, kind |-> tape[k].kind, wires |-> tape[k].wires] : k \in DOMAIN tape}

C10_TapesAlignedWithShapes ==
    pc = "done" =>
        LET shapes == ret.post.shapes
            offset(f) == SumSeq(SubSeq(shapes, 1, f - 1))
        IN /\ Len(shapes) = Len(fragments)
           /\ Len(ret.tapes) = SumSeq(shapes)
           /\ \A f \in DOMAIN fragments :
                 LET cs == expand_fragment_tapes(graph_to_tape(fragments[f]))
                 IN /\ shapes[f] = Len(cs)
                    /\ \A c \in 1 .. Len(cs) : ret.tapes[offset(f) + c] = cs[c]
           /\ ret.post.communication_graph = communication_graph
           /\ communication_graph = fragment_graph(g).communication_graph

C10_Witness ==
    /\ pc = "done"
    /\ Len(fragments) >= 3
    /\ \E a, b \in DOMAIN ret.post.shapes :
          a < b /\ ret.post.shapes[a] > ret.post.shapes[b] /\ ret.post.shapes[b] > 1

\* ---------------------------------------------------------------------------
\* The number of configurations of a set of placeholders, and of all fragments.
RECURSIVE ConfigurationCount(_)
ConfigurationCount(S) ==
    IF S = {} THEN 1
    ELSE AlphabetSize * ConfigurationCount(S \ {CHOOSE x \in S : TRUE})

PlaceholdersOf(f) == {n \in Range(fragments[f].nodes) : IsPlaceholder(n)}

TotalConfigurations ==
    SumSeq([f \in DOMAIN fragments |-> ConfigurationCount(PlaceholdersOf(f))])

\* C11: when the fragments' configurations together number more than the
\* caller's ceiling, cut_circuit fails before any expansion and returns no
\* tapes and no post-processing function.
C11_BudgetExceededReturnsNothing ==
    (pc = "done" /\ ceiling # NoCeiling /\ TotalConfigurations > ceiling) => ret = NoReturn

\* C12: for every fragment f, shapes[f], the number of tapes emitted for f, is
\* AlphabetSize to the power of the number of MeasureNode and PrepareNode
\* operations in f's tape; a fragment without placeholders yields one tape.
C12_ShapeIsAlphabetPowerOfPlaceholders ==
    pc = "done" =>
        /\ DOMAIN ret.post.shapes = DOMAIN fragments
        /\ \A f \in DOMAIN fragments :
              LET t == ret.fragment_tapes[f]
                  p == {k \in DOMAIN t : t[k].kind \in {"MeasureNode", "PrepareNode"}}
              IN /\ Cardinality(p) = Cardinality(PlaceholdersOf(f))
                 /\ ret.post.shapes[f] = ConfigurationCount(p)
                 /\ Len(ret.configurations[f]) = ret.post.shapes[f]
                 /\ (p = {} => ret.post.shapes[f] = 1)

C12_Witness ==
    /\ pc = "done"
    /\ \E f \in DOMAIN fragments :
          PlaceholdersOf(f) = {} /\ fragments[f].nodes # << >> /\ ret.post.shapes[f] = 1
    /\ \E f \in DOMAIN fragments :
          Cardinality(PlaceholdersOf(f)) >= 2 /\ ret.post.shapes[f] >= 4

\* C14: the forward of a grad object is None until a call returns, and then
\* the forward value of the latest call that returned; a call that raises
\* leaves it alone, and a read of forward returns it and changes nothing.
C14_ForwardIsLatestReturnedValue ==
    /\ grad_obj._forward = grad_trace.last_ok
    /\ (grad_trace.last.raised = "no call" => grad_obj._forward = << >>)
    /\ (grad_trace.read # << >> => grad_trace.read[1] = grad_trace.last_ok)

C14_Witness ==
    /\ grad_trace.last.raised = "TypeError"
    /\ grad_trace.last_ok # << >>
    /\ grad_trace.read = <<grad_obj._forward>>

\* The positions (from 0) of the arguments of the last call that are not
\* marked requires_grad False.
TrainablePositions == {k - 1 : k \in {d \in DOMAIN grad_trace.last.args :
                                         grad_trace.last.args[d] # "False"}}

\* C15: a grad object made without argnum differentiates each call with
\* respect to exactly the arguments not marked requires_grad False at that
\* call; one made with argnum differentiates every call with respect to it.
C15_SelectionRecomputedEveryCall ==
    grad_trace.last.raised # "no call" =>
        IF grad_obj._argnum.kind = "None"
        THEN /\ Range(grad_trace.last.wrt.idx) = TrainablePositions
             /\ Len(grad_trace.last.wrt.idx) = Cardinality(TrainablePositions)
        ELSE grad_trace.last.wrt = grad_obj._argnum

C15_Witness ==
    /\ grad_obj._argnum.kind = "None"
    /\ grad_trace.last.raised = "none"
    /\ \E d \in DOMAIN grad_trace.last.args : grad_trace.last.args[d] = "False"
    /\ \E d \in DOMAIN grad_trace.last.args : grad_trace.last.args[d] = "None"
    /\ grad_trace.prev_wrt # << >>
    /\ grad_trace.prev_wrt[1] # grad_trace.last.wrt

\* The arguments jacobian selects, in order: argnum, or the positions of the
\* arguments not marked requires_grad False.
JacSelected ==
    IF jac.argnum.kind = "None"
    THEN SortedSeq({k - 1 : k \in {d \in DOMAIN jac.args : jac.args[d] # "False"}})
    ELSE jac.argnum.idx

\* C16: the function jacobian returns gives one Jacobian per selected
\* argument, in argnum order, as a tuple, and gives the single entry itself
\* exactly when argnum is an integer or argnum is None with exactly one
\* trainable argument.
C16_UnpackedExactlyForIntOrSingleInferred ==
    jac.raised = "none" =>
        LET unpacked == \/ jac.argnum.kind = "int"
                        \/ jac.argnum.kind = "None" /\ Len(JacSelected) = 1
        IN /\ jac.is_tuple = ~unpacked
           /\ Len(jac.entries) = Len(JacSelected)
           /\ \A k \in DOMAIN jac.entries : jac.entries[k].wrt = JacSelected[k]

C16_Witness ==
    /\ jac.raised = "none"
    /\ jac.argnum.kind = "seq"
    /\ Len(jac.argnum.idx) = 1
    /\ jac.is_tuple
    /\ Len(jac.entries) = 1

\* C17: one call of remove_wire_cut_node keeps every node but the marker and
\* every edge not incident to the marker as they were; the nodes it adds are
\* MeasureNode and PrepareNode on the marker's wires, and the edges it adds
\* are incident to those nodes.
C17_ResolveTouchesOnlyTheMarker ==
    \A c \in Range(calls) :
        LET old(id) == id < c.before.fresh
            created == {n.id : n \in Created(c)}
        IN /\ SelectSeq(c.graph.nodes, LAMBDA n : old(n.id))
                 = SelectSeq(c.before.nodes, LAMBDA n : n.id # c.node)
           /\ SelectSeq(c.graph.edges, LAMBDA e : old(e.u) /\ old(e.v))
                 = SelectSeq(c.before.edges, LAMBDA e : e.u # c.node /\ e.v # c.node)
           /\ \A n \in Created(c) :
                 IsPlaceholder(n) /\ n.wires # {} /\ n.wires \subseteq c.wires
           /\ \A e \in Range(c.graph.edges) :
                 e \notin Range(c.before.edges) => (e.u \in created \/ e.v \in created)

C17_Witness ==
    \E c \in Range(calls) :
        /\ \E e \in Range(c.before.edges) : e.u # c.node /\ e.v # c.node
        /\ \E e \in Range(c.before.edges) : e.v = c.node
        /\ \E e \in Range(c.before.edges) : e.u = c.node
        /\ \E n \in Range(c.before.nodes) : n.id # c.node /\ ~(n.wires \subseteq c.wires)
        /\ Created(c) # {}

\* C18: the functions finite_diff returns raise ValueError, before evaluating
\* f, for every argnum outside 0 .. len(args) - 1, negative ones included.
C18_ArgnumOutsideRangeRaisesValueError ==
    (fd.raised # "no call" /\ ~(0 <= fd.argnum /\ fd.argnum <= Len(fd.args) - 1))
        => (fd.raised = "ValueError" /\ fd.f_evals = 0)

====
